---- MODULE Spec2Model ----
(***************************************************************************)
(* BasicIterativeMethod (art/attacks/iterative_method.py): construction,   *)
(* set_params and the generate() loop with its shrinking active index      *)
(* list.                                                                   *)
(*                                                                         *)
(* Numbers.  eps, eps_step, the sample features and the classifier         *)
(* threshold are Python floats; the model holds them as integers counting  *)
(* tenths (3 is 0.3).  max_iter is a record [int, v]: v counts tenths and  *)
(* int says whether the Python value is an int (20 is [int |-> TRUE,       *)
(* v |-> 200], 3.9 is [int |-> FALSE, v |-> 39]).                          *)
(*                                                                         *)
(* Arrays.  A batch is a sequence of samples, a sample a sequence of       *)
(* features.  Sequences are 1-based: the model's index i is the Python     *)
(* index i-1.  Arrays live in `heap`, so that a copy and an alias differ.  *)
(*                                                                         *)
(* Scope.  A behaviour follows one caller batch x and one instance: its    *)
(* construction, any number of set_params() calls and of generate() calls  *)
(* that raise, and one generate() call up to the batch it returns.  What   *)
(* generate() does depends on the instance's attributes and its arguments  *)
(* only, so a second returning call adds no behaviour of its own.          *)
(*                                                                         *)
(* Collaborators.  The classifier is a two-class threshold classifier on   *)
(* the sum of the features; _compute steps every feature by the step size  *)
(* along the sign of that classifier's loss gradient; projection clips or  *)
(* scales into the norm ball.                                              *)
(***************************************************************************)
EXTENDS Integers, Sequences, FiniteSets, TLC

VARIABLES
    inst,            \* "none" before __init__, "ok" once it returned, "failed" if it raised
    self,            \* the instance's attributes
    err,             \* the exception the last operation raised, "none" if it returned
    pc,              \* "idle": no generate() running; "loop": at line 98; "exit": at line 114
    heap,            \* the arrays: heap["caller"] is the caller's x, heap["work"] the copy
    adv_x,           \* the array adv_x refers to
    x0,              \* the batch as the caller built it
    targets,         \* one-hot targets, line 92/94
    active_indices,  \* line 96/108
    k,               \* iterations of the loop executed so far
    ret,             \* the array the last generate() returned, "none" if it has not
    exitVal,         \* per index: adv_x[i] at the end of the iteration that removed i
    prevActive,      \* active_indices at the start of the last iteration executed
    stepOut,         \* adv_x as line 100 of the last iteration executed left it
    ctor,            \* while __init__ is the last operation: its eps, eps_step and
                     \* max_iter arguments
    last,            \* the last method called: "none", "__init__", "set_params" or
                     \* "generate"
    calls            \* the collaborator calls of the last generate() call

vars == <<inst, self, err, pc, heap, adv_x, x0, targets, active_indices, k, ret,
          exitVal, prevActive, stepOut, ctor, last, calls>>

---------------------------------------------------------------------------
(* Bounds and input sets *)

MaxBatch == 2

NormInf == 0

DefaultEps == 3

DefaultEpsStep == 1

DefaultMaxIter == 20

PyIntNum(n) == [int |-> TRUE, v |-> 10 * n]

PyFloatNum(t) == [int |-> FALSE, v |-> t]

NormValues == {NormInf, 1, 2}

EpsValues == {3}

EpsStepValues == {1, 3, 5}

MaxIterValues == {PyIntNum(-5), PyIntNum(0), PyIntNum(2), PyFloatNum(5), PyFloatNum(39)}

ThrValues == {12}

XValues == {<<0, 0>>, <<4, 4>>, <<5, 5>>}

Range(s) == {s[i] : i \in 1..Len(s)}

Abs(n) == IF n < 0 THEN -n ELSE n

Sign(n) == IF n < 0 THEN -1 ELSE IF n > 0 THEN 1 ELSE 0

Min(a, b) == IF a <= b THEN a ELSE b

---------------------------------------------------------------------------
(* numpy: element-wise arithmetic, fancy indexing, argmax, norms *)

RECURSIVE SumSeq(_)
SumSeq(s) == IF Len(s) = 0 THEN 0 ELSE s[1] + SumSeq(Tail(s))

RECURSIVE MaxSeq(_)
MaxSeq(s) == IF Len(s) = 1 THEN s[1]
             ELSE LET m == MaxSeq(Tail(s)) IN IF s[1] >= m THEN s[1] ELSE m

VecSub(a, b) == [j \in 1..Len(a) |-> a[j] - b[j]]

VecAdd(a, b) == [j \in 1..Len(a) |-> a[j] + b[j]]

BatchSub(a, b) == [n \in 1..Len(a) |-> VecSub(a[n], b[n])]

BatchAdd(a, b) == [n \in 1..Len(a) |-> VecAdd(a[n], b[n])]

\* arr[idx] with idx a list of indices
Take(arr, idx) == [n \in 1..Len(idx) |-> arr[idx[n]]]

PutByPosition(arr, idx, vals) ==
    [i \in 1..Len(arr) |-> IF i <= Len(vals) THEN vals[i] ELSE arr[i]]

\* arr[idx] = vals
Put(arr, idx, vals) ==
    [i \in 1..Len(arr) |->
        IF \E n \in 1..Len(idx) : idx[n] = i
        THEN vals[CHOOSE n \in 1..Len(idx) : idx[n] = i]
        ELSE arr[i]]

\* np.argmax of one row: the first position of the maximum, counted from 0
ArgMaxRow(row) ==
    (CHOOSE j \in 1..Len(row) :
        /\ row[j] = MaxSeq(row)
        /\ \A h \in 1..(j - 1) : row[h] # MaxSeq(row)) - 1

\* np.argmax(m, axis=1)
ArgMax(m) == [n \in 1..Len(m) |-> ArgMaxRow(m[n])]

NormInfOf(v) == MaxSeq([j \in 1..Len(v) |-> Abs(v[j])])

Norm1Of(v) == SumSeq([j \in 1..Len(v) |-> Abs(v[j])])

Norm2SqOf(v) == SumSeq([j \in 1..Len(v) |-> v[j] * v[j]])

\* norm_p(v) <= r, the 2-norm compared by its square
InBall(v, r, p) ==
    IF p = NormInf THEN NormInfOf(v) <= r
    ELSE IF p = 1 THEN Norm1Of(v) <= r
    ELSE Norm2SqOf(v) <= r * r

\* the least n with n * n >= q
CeilSqrt(q) == CHOOSE n \in 0..(q + 1) : n * n >= q /\ \A m \in 0..(n - 1) : m * m < q

\* a quotient rounded toward zero
TruncDiv(a, b) == IF a >= 0 THEN a \div b ELSE -((-a) \div b)

---------------------------------------------------------------------------
(* Collaborators *)

\* art.utils.projection on one row: clip to [-eps, eps] for the infinity norm,
\* scale by min(1, eps / norm) for the 1- and 2-norm (the quotient rounded
\* toward zero, which keeps the row inside the ball)
ProjectionRow(v, eps, p) ==
    IF p = NormInf THEN [j \in 1..Len(v) |-> Sign(v[j]) * Min(Abs(v[j]), eps)]
    ELSE IF InBall(v, eps, p) THEN v
    ELSE IF p = 1 THEN [j \in 1..Len(v) |-> TruncDiv(v[j] * eps, Norm1Of(v))]
    ELSE [j \in 1..Len(v) |-> TruncDiv(v[j] * eps, CeilSqrt(Norm2SqOf(v)))]

projection(noise, eps, p) == [n \in 1..Len(noise) |-> ProjectionRow(noise[n], eps, p)]

\* classifier.predict: two classes, class 1 scores highest exactly when the
\* features sum to the classifier's threshold or more
predict(thr, batch) ==
    [n \in 1..Len(batch) |-> IF SumSeq(batch[n]) >= thr THEN <<0, 1>> ELSE <<1, 0>>]

\* art.utils.get_labels_np_array: one-hot of the row maximum
get_labels_np_array(preds) ==
    [n \in 1..Len(preds) |->
        [j \in 1..Len(preds[n]) |-> IF preds[n][j] = MaxSeq(preds[n]) THEN 1 ELSE 0]]

\* the sign of the loss gradient for the threshold classifier: an untargeted
\* step moves away from the class of y, a targeted step towards it
GradSign(s, yrow) ==
    IF s.targeted THEN (IF ArgMaxRow(yrow) = 1 THEN 1 ELSE -1)
    ELSE (IF ArgMaxRow(yrow) = 1 THEN -1 ELSE 1)

\* FastGradientMethod._compute: one step of size eps along the gradient sign,
\* after a random offset rnd[n] of row n when random_init is set
compute(s, batch, y, eps, random_init, rnd) ==
    [n \in 1..Len(batch) |->
        [j \in 1..Len(batch[n]) |->
            batch[n][j] + (IF random_init THEN rnd[n] ELSE 0) + eps * GradSign(s, y[n])]]

\* the offsets np.random.uniform(-eps, eps) may draw for a batch of m rows: the
\* model draws one of -eps, 0, eps for the whole batch
RandomDraws(eps, random_init, m) ==
    IF random_init THEN {[n \in 1..m |-> d] : d \in {-eps, 0, eps}}
    ELSE {[n \in 1..m |-> 0]}

---------------------------------------------------------------------------
(* Keyword arguments: kw.keys holds the names given, the other fields their
   values (a placeholder for a name that is not given) *)

NoY == [none |-> TRUE, v |-> <<>>]

NoKwargs ==
    [keys |-> {}, eps |-> 0, eps_step |-> 0, max_iter |-> PyIntNum(0), y |-> NoY]

OneHots == {<<1, 0>>, <<0, 1>>}

\* the overrides of the configuration a caller may pass
ConfigOverrides ==
    {NoKwargs}
    \cup {[NoKwargs EXCEPT !.keys = {"eps_step"}, !.eps_step = e] : e \in {3, 5}}
    \cup {[NoKwargs EXCEPT !.keys = {"max_iter"}, !.max_iter = m] :
            m \in {PyIntNum(0), PyFloatNum(39)}}
    \cup {[NoKwargs EXCEPT !.keys = {"eps"}, !.eps = 2]}

\* the y arguments for a batch of n samples: absent, None, or one-hot labels
WithY(kw, n) ==
    {kw, [kw EXCEPT !.keys = @ \cup {"y"}]}
    \cup {[kw EXCEPT !.keys = @ \cup {"y"}, !.y = [none |-> FALSE, v |-> l]] :
            l \in [1..n -> OneHots]}

Batches == [1..MaxBatch -> XValues]

---------------------------------------------------------------------------
(* Configuration: __init__ and set_params *)

\* line 31
attack_params == {"norm", "eps", "targeted", "random_init", "eps_step", "max_iter"}

NoSelf ==
    [classifier |-> 0, norm |-> NormInf, eps |-> 0, targeted |-> FALSE,
     random_init |-> FALSE, eps_step |-> 0, max_iter |-> PyIntNum(0)]

PyIntRounded(num) == [int |-> TRUE, v |-> 10 * TruncDiv(num.v + 5, 10)]

\* int(max_iter), line 59: truncation toward zero
PyInt(num) == [int |-> TRUE, v |-> 10 * TruncDiv(num.v, 10)]

\* the base class's validation of norm and eps
BaseCheck(s) ==
    IF s.norm \notin {NormInf, 1, 2} THEN "ValueError: norm"
    ELSE IF s.eps <= 0 THEN "ValueError: eps"
    ELSE "none"

\* Attack.set_params: setattr for every keyword that is an attack parameter
StoreParams(s, kw) ==
    [classifier |-> s.classifier,
     norm |-> s.norm,
     eps |-> IF "eps" \in kw.keys \cap attack_params THEN kw.eps ELSE s.eps,
     targeted |-> s.targeted,
     random_init |-> s.random_init,
     eps_step |-> IF "eps_step" \in kw.keys \cap attack_params THEN kw.eps_step
                  ELSE s.eps_step,
     max_iter |-> IF "max_iter" \in kw.keys \cap attack_params THEN kw.max_iter
                  ELSE s.max_iter]

InitRejectsEpsStepOrEqual(eps_step, eps) == eps_step >= eps

\* line 53
InitRejectsEpsStep(eps_step, eps) == eps_step > eps

\* line 57
InitRejectsMaxIter(max_iter) == max_iter.v <= 0

\* __init__, lines 50-59: the error it raises ("none" if it returns)
InitError(base, eps_step, max_iter) ==
    IF BaseCheck(base) # "none" THEN BaseCheck(base)
    ELSE IF InitRejectsEpsStep(eps_step, base.eps) THEN "ValueError: eps_step"
    ELSE IF InitRejectsMaxIter(max_iter) THEN "ValueError: max_iter"
    ELSE "none"

\* __init__, lines 55 and 59: the attributes of the constructed instance
InitSelf(base, eps_step, max_iter) ==
    [base EXCEPT !.eps_step = eps_step, !.max_iter = PyInt(max_iter)]

SetParamsAcceptsAnyEpsStep(s) == FALSE

\* line 130
SetParamsRejectsEpsStep(s) == s.eps_step > s.eps

\* line 133
SetParamsRejectsMaxIter(s) == s.max_iter.v <= 0

set_paramsRolledBack(s, kw) ==
    LET s1 == StoreParams(s, kw)
        e == IF BaseCheck(s1) # "none" THEN BaseCheck(s1)
             ELSE IF SetParamsRejectsEpsStep(s1) THEN "ValueError: eps_step"
             ELSE IF SetParamsRejectsMaxIter(s1) THEN "ValueError: max_iter"
             ELSE "none"
    IN  [self |-> IF e = "none" THEN s1 ELSE s, err |-> e]

\* set_params, lines 128-136: the attributes after the call and the error raised
set_params(s, kw) ==
    LET s1 == StoreParams(s, kw) IN
    [self |-> s1,
     err |-> IF BaseCheck(s1) # "none" THEN BaseCheck(s1)
             ELSE IF SetParamsRejectsEpsStep(s1) THEN "ValueError: eps_step"
             ELSE IF SetParamsRejectsMaxIter(s1) THEN "ValueError: max_iter"
             ELSE "none"]

ConfigErrors ==
    {"ValueError: norm", "ValueError: eps", "ValueError: eps_step", "ValueError: max_iter"}

---------------------------------------------------------------------------
(* generate(): the code of lines 85-112, line by line *)

CopyAlias(r) == r

\* x.copy(), line 85: a fresh array; the argument is the array copied
Copy(r) == "work"

\* line 86
NoLabelsGiven(kw) == "y" \notin kw.keys \/ kw.y.none

ResolveTargetsFromClassifier(s, x, kw) ==
    get_labels_np_array(predict(s.classifier, x))

\* lines 92 and 94
ResolveTargets(s, x, kw) ==
    IF NoLabelsGiven(kw) THEN get_labels_np_array(predict(s.classifier, x)) ELSE kw.y.v

GenerateErrorSwallowed(r, kw) ==
    IF NoLabelsGiven(kw) /\ r.self.targeted THEN "ValueError: y"
    ELSE IF ~r.self.max_iter.int THEN "TypeError: range"
    ELSE "none"

GenerateErrorLabelsOptional(r, kw) ==
    IF r.err # "none" THEN r.err
    ELSE IF ~r.self.max_iter.int THEN "TypeError: range"
    ELSE "none"

\* lines 83-98: the error generate() raises before its first iteration ("none"
\* if it raises none), r what set_params returned
GenerateError(r, kw) ==
    IF r.err # "none" THEN r.err
    ELSE IF NoLabelsGiven(kw) /\ r.self.targeted THEN "ValueError: y"
    ELSE IF ~r.self.max_iter.int THEN "TypeError: range"
    ELSE "none"

\* lines 83-92: the batches passed to classifier.predict to resolve the labels
LabelQueries(r, x, kw) ==
    IF r.err # "none" \/ (NoLabelsGiven(kw) /\ r.self.targeted) THEN <<>>
    ELSE IF NoLabelsGiven(kw) THEN <<x>>
    ELSE <<>>

\* line 101: the random_init argument of _compute in iteration number n (from 0)
RandomInitArg(s, n) == s.random_init

\* line 95
TargetLabels(t) == ArgMax(t)

\* range(len(adv_x)), line 96
InitialActive(adv) == [n \in 1..Len(adv) |-> n]

\* len(range(self.max_iter)), line 98, for an int max_iter
RangeCount(max_iter) == IF max_iter.v <= 0 THEN 0 ELSE max_iter.v \div 10

NoiseUnprojected(adv, x, idx, eps, norm) == BatchSub(Take(adv, idx), Take(x, idx))

\* line 102
Noise(adv, x, idx, eps, norm) ==
    projection(BatchSub(Take(adv, idx), Take(x, idx)), eps, norm)

ReanchorUnindexed(x, idx, noise) == BatchAdd([n \in 1..Len(idx) |-> x[n]], noise)

\* the right-hand side of line 103
Reanchor(x, idx, noise) == BatchAdd(Take(x, idx), noise)

ActiveSubindicesUnmapped(target_labels, idx, adv_preds) ==
    LET am == ArgMax(adv_preds)
        Keep(n) == target_labels[n] # am[n]
    IN  SelectSeq([n \in 1..Len(idx) |-> n], Keep)

\* line 107: the positions in the active list that stay active
ActiveSubindices(target_labels, idx, adv_preds) ==
    LET am == ArgMax(adv_preds)
        Keep(n) == target_labels[idx[n]] # am[n]
    IN  SelectSeq([n \in 1..Len(idx) |-> n], Keep)

NewActiveByPosition(idx, sub) == sub

\* line 108
NewActive(idx, sub) == [n \in 1..Len(sub) |-> idx[sub[n]]]

LoopNeverBreaks(idx) == FALSE

\* line 111
LoopBreaks(idx) == Len(idx) = 0

NoExit(n) == [i \in 1..n |-> <<>>]

---------------------------------------------------------------------------
(* Actions *)

NoCtor == [eps |-> 0, eps_step |-> 0, max_iter |-> PyIntNum(0)]

\* labelq: the batches queried to resolve the labels; predict, compute,
\* projection: the calls made by the loop; rinit: whether the last _compute call
\* was asked for a random start
NoCalls == [labelq |-> <<>>, predict |-> 0, compute |-> 0, projection |-> 0,
            rinit |-> FALSE]

\* No instance yet; the caller holds a batch x.
Init ==
    /\ inst = "none"
    /\ self = NoSelf
    /\ err = "none"
    /\ pc = "idle"
    /\ \E xin \in Batches : heap = [caller |-> xin, work |-> <<>>] /\ x0 = xin
    /\ adv_x = "work"
    /\ targets = <<>>
    /\ active_indices = <<>>
    /\ k = 0
    /\ ret = "none"
    /\ exitVal = <<>>
    /\ prevActive = <<>>
    /\ stepOut = <<>>
    /\ ctor = NoCtor
    /\ last = "none"
    /\ calls = NoCalls

callVars == <<pc, heap, adv_x, x0, targets, active_indices, k, ret, exitVal,
              prevActive, stepOut>>

\* BasicIterativeMethod(classifier, norm, eps, eps_step, max_iter, targeted, random_init)
Construct(classifier, norm, eps, eps_step, max_iter, targeted, random_init) ==
    /\ inst = "none"
    /\ LET base == [NoSelf EXCEPT !.classifier = classifier, !.norm = norm, !.eps = eps,
                                  !.targeted = targeted, !.random_init = random_init]
           e == InitError(base, eps_step, max_iter)
       IN  /\ err' = e
           /\ inst' = IF e = "none" THEN "ok" ELSE "failed"
           /\ self' = IF e = "none" THEN InitSelf(base, eps_step, max_iter) ELSE self
           /\ ctor' = [eps |-> eps, eps_step |-> eps_step, max_iter |-> max_iter]
    /\ last' = "__init__"
    /\ UNCHANGED <<callVars, calls>>

\* attack.set_params(**kw)
SetParams(kw) ==
    /\ inst = "ok"
    /\ pc = "idle"
    /\ ret = "none"
    /\ self' = set_params(self, kw).self
    /\ err' = set_params(self, kw).err
    /\ ctor' = NoCtor
    /\ last' = "set_params"
    /\ calls' = NoCalls
    /\ UNCHANGED <<inst, callVars>>

\* attack.generate(x, **kw) up to the loop, lines 83-98, x the caller's batch
GenerateCall(kw) ==
    /\ inst = "ok"
    /\ pc = "idle"
    /\ ret = "none"
    /\ LET r == set_params(self, kw)
           xin == heap["caller"]
           a == Copy("caller")
           h == [heap EXCEPT ![a] = xin]
           e == GenerateError(r, kw)
           n == RangeCount(r.self.max_iter)
       IN  /\ self' = r.self
           /\ err' = e
           /\ IF e # "none"
              THEN \* the call raised: its locals are gone
                   UNCHANGED <<heap, adv_x, targets, active_indices, pc, exitVal>>
              ELSE /\ heap' = h
                   /\ adv_x' = a
                   /\ targets' = ResolveTargets(r.self, h["caller"], kw)
                   /\ active_indices' = InitialActive(h[a])
                   /\ exitVal' = NoExit(Len(h[a]))
                   /\ pc' = IF n = 0 THEN "exit" ELSE "loop"
    /\ ctor' = NoCtor
    /\ last' = "generate"
    /\ calls' = [NoCalls EXCEPT
                    !.labelq = LabelQueries(set_params(self, kw), heap["caller"], kw)]
    /\ UNCHANGED <<inst, x0, ret, k, prevActive, stepOut>>

\* one iteration of the loop, lines 100-112
Iterate ==
    /\ pc = "loop"
    /\ \E rnd \in RandomDraws(self.eps_step, RandomInitArg(self, k),
                              Len(active_indices)) :
        LET idx == active_indices IN
            \* lines 100-101; stepOut records adv_x as this assignment leaves it
            /\ stepOut' = Put(heap[adv_x], idx,
                              compute(self, Take(heap[adv_x], idx), Take(targets, idx),
                                      self.eps_step, RandomInitArg(self, k), rnd))
            \* lines 102-103, on the heap as line 100 left it
            /\ LET h1 == [heap EXCEPT ![adv_x] = stepOut'] IN
                heap' = [h1 EXCEPT ![adv_x] =
                            Put(h1[adv_x], idx,
                                Reanchor(h1["caller"], idx,
                                         Noise(h1[adv_x], h1["caller"], idx,
                                               self.eps, self.norm)))]
            \* lines 104-108
            /\ active_indices' =
                    NewActive(idx,
                              ActiveSubindices(TargetLabels(targets), idx,
                                               predict(self.classifier,
                                                       Take(heap'[adv_x], idx))))
            /\ k' = k + 1
            \* lines 98 and 111-112
            /\ pc' = IF LoopBreaks(active_indices') \/ k + 1 >= RangeCount(self.max_iter)
                     THEN "exit" ELSE "loop"
            /\ prevActive' = idx
            /\ exitVal' = [i \in 1..Len(exitVal) |->
                             IF i \in Range(idx) \ Range(active_indices')
                             THEN heap'[adv_x][i] ELSE exitVal[i]]
            /\ calls' = [calls EXCEPT !.compute = @ + 1, !.projection = @ + 1,
                                       !.predict = @ + 1,
                                       !.rinit = RandomInitArg(self, k)]
    /\ UNCHANGED <<inst, self, err, adv_x, x0, targets, ret, ctor, last>>

\* return adv_x, line 114
Return ==
    /\ pc = "exit"
    /\ pc' = "idle"
    /\ ret' = adv_x
    /\ UNCHANGED <<inst, self, err, heap, adv_x, x0, targets, active_indices, k,
                   exitVal, prevActive, stepOut, ctor, last, calls>>

Next ==
    \/ \E c \in ThrValues, p \in NormValues, e \in EpsValues, es \in EpsStepValues,
          m \in MaxIterValues, t \in BOOLEAN, ri \in BOOLEAN :
            Construct(c, p, e, es, m, t, ri)
    \/ \E kw \in ConfigOverrides : SetParams(kw)
    \/ \E o \in ConfigOverrides : \E kw \in WithY(o, Len(heap["caller"])) :
            GenerateCall(kw)
    \/ Iterate
    \/ Return

Spec == Init /\ [][Next]_vars

\* generate() runs to its end once called: no step of the loop is an await, and
\* the collaborators return
SpecLive == Init /\ [][Next]_vars /\ WF_vars(Iterate) /\ WF_vars(Return)

---------------------------------------------------------------------------
(* The end-to-end run: the default configuration (L-infinity, eps 0.3,
   eps_step 0.1, max_iter 20, untargeted, no random start), no labels, and a
   batch of four samples of which the first and third cross the classifier's
   threshold with the second step and the other two never do *)

E2ESamples ==
    [cross |-> {<<4, 4>>, <<4, 5>>, <<5, 4>>}, stay |-> {<<0, 0>>, <<1, 0>>, <<1, 1>>}]

E2EBatches ==
    {<<a, b, c, d>> : a \in E2ESamples.cross, b \in E2ESamples.stay,
                      c \in E2ESamples.cross, d \in E2ESamples.stay}

InitE2E ==
    /\ inst = "none"
    /\ self = NoSelf
    /\ err = "none"
    /\ pc = "idle"
    /\ \E xin \in E2EBatches : heap = [caller |-> xin, work |-> <<>>] /\ x0 = xin
    /\ adv_x = "work"
    /\ targets = <<>>
    /\ active_indices = <<>>
    /\ k = 0
    /\ ret = "none"
    /\ exitVal = <<>>
    /\ prevActive = <<>>
    /\ stepOut = <<>>
    /\ ctor = NoCtor
    /\ last = "none"
    /\ calls = NoCalls

NextE2E ==
    \/ \E c \in ThrValues :
            Construct(c, NormInf, DefaultEps, DefaultEpsStep, PyIntNum(DefaultMaxIter),
                      FALSE, FALSE)
    \/ GenerateCall(NoKwargs)
    \/ Iterate
    \/ Return

SpecE2E == InitE2E /\ [][NextE2E]_vars

---------------------------------------------------------------------------
(* The claims *)

\* the batch generate() returned
Returned == heap[ret]

\* C1: every sample of the returned batch lies within eps of the original
\* sample under the configured norm, whether it left the active list or was
\* still in it when max_iter ran out.
C1_ReturnedWithinBudget ==
    ret # "none" =>
        \A i \in 1..Len(x0) : InBall(VecSub(Returned[i], x0[i]), self.eps, self.norm)

\* a run of two or more iterations returned one sample that left the active
\* list and one still active, the latter on the boundary of a 1-norm ball
C1_Witness ==
    /\ ret # "none"
    /\ k >= 2
    /\ self.norm = 1
    /\ \E i \in Range(active_indices) :
            /\ Norm1Of(VecSub(Returned[i], x0[i])) <= self.eps
            /\ Norm1Of(VecSub(stepOut[i], x0[i])) > self.eps
    /\ \E i \in 1..Len(x0) : i \notin Range(active_indices)

\* C2: the active list only shrinks: after an iteration it holds only indices
\* it held before the iteration, and an index that was removed is not in it.
C2_ActiveOnlyShrinks ==
    k >= 1 =>
        /\ Range(active_indices) \subseteq Range(prevActive)
        /\ \A i \in 1..Len(x0) : exitVal[i] # <<>> => i \notin Range(active_indices)

\* a third iteration ran on a list that the earlier iterations had shortened
C2_Witness ==
    /\ k >= 3
    /\ Len(prevActive) < Len(x0)
    /\ Len(active_indices) > 0

\* the classifier's arg-max prediction for every sample of adv_x as it stands
CurrentPrediction == ArgMax(predict(self.classifier, heap[adv_x]))

\* C3: an iteration removes an index from the active list exactly when the
\* prediction for its perturbed sample no longer matches its fixed target
\* label, and keeps it while the prediction still matches.
C3_RemovedWhenPredictionLeavesTarget ==
    (k >= 1 /\ pc \in {"loop", "exit"}) =>
        \A i \in Range(prevActive) :
            (i \notin Range(active_indices))
                <=> (TargetLabels(targets)[i] # CurrentPrediction[i])

\* C5: when every target label differs from the prediction for the original
\* sample and for the sample as iteration 0 left it, the active list is empty
\* after iteration 0 and the loop has ended with the values of iteration 0.
C5_EarlyExitWhenAlreadyMisclassified ==
    (/\ k = 1
     /\ pc \in {"loop", "exit"}
     /\ \A i \in 1..Len(x0) :
            /\ TargetLabels(targets)[i] # ArgMax(predict(self.classifier, x0))[i]
            /\ TargetLabels(targets)[i] # CurrentPrediction[i])
    => (/\ active_indices = <<>>
        /\ pc = "exit"
        /\ \A i \in 1..Len(x0) :
            heap[adv_x][i] = VecAdd(x0[i], ProjectionRow(VecSub(stepOut[i], x0[i]),
                                                       self.eps, self.norm)))

\* C6: generate() leaves the caller's batch as it was, at every point of the
\* call and after it, also when it raises; the batch returned is another
\* array, with as many samples, of the same shape, as x.
C6_InputUntouched ==
    /\ heap["caller"] = x0
    /\ ret # "none" =>
        /\ ret # "caller"
        /\ Len(Returned) = Len(x0)
        /\ \A i \in 1..Len(x0) : Len(Returned[i]) = Len(x0[i])

\* generate() returned a batch that differs from x
C6_Witness ==
    /\ ret # "none"
    /\ k >= 2
    /\ \A i \in 1..Len(x0) : Returned[i] # heap["caller"][i]

\* C7: a sample that left the active list keeps the value it had at the end
\* of the iteration that removed it; a sample still active when the loop ends
\* has the value the last iteration wrote.
C7_FrozenAfterRemoval ==
    k >= 1 =>
        \A i \in 1..Len(x0) :
            /\ exitVal[i] # <<>> => heap[adv_x][i] = exitVal[i]
            /\ i \in Range(active_indices) =>
                heap[adv_x][i] = VecAdd(x0[i], ProjectionRow(VecSub(stepOut[i], x0[i]),
                                                           self.eps, self.norm))

\* the batch was returned after iterations that ran without a sample removed
\* earlier, which kept its value while another sample was still moved
C7_Witness ==
    /\ ret # "none"
    /\ k >= 3
    /\ \E i \in 1..Len(x0) : exitVal[i] # <<>> /\ Returned[i] = exitVal[i]
    /\ \E i \in Range(active_indices) : Returned[i] # x0[i]

\* sample v after n additive steps of eps_step on every feature
Stepped(v, n) == [j \in 1..Len(v) |-> v[j] + n * self.eps_step]

\* the prediction for v after n steps differs from the prediction for v
Flipped(v, n) ==
    ArgMax(predict(self.classifier, <<Stepped(v, n)>>))
        # ArgMax(predict(self.classifier, <<v>>))

FlipsWithSecondStep(v) == ~Flipped(v, 1) /\ Flipped(v, 2)

\* no number of steps that stays within the budget eps flips the prediction
NeverFlips(v) == \A n \in 0..(self.eps \div self.eps_step) : ~Flipped(v, n)

E2EScenario ==
    /\ self.norm = NormInf /\ self.eps = DefaultEps /\ self.eps_step = DefaultEpsStep
    /\ self.max_iter = PyIntNum(DefaultMaxIter)
    /\ ~self.targeted /\ ~self.random_init
    /\ Len(x0) = 4
    /\ targets = get_labels_np_array(predict(self.classifier, x0))
    /\ FlipsWithSecondStep(x0[1]) /\ FlipsWithSecondStep(x0[3])
    /\ NeverFlips(x0[2]) /\ NeverFlips(x0[4])

\* C4: in the end-to-end run the two samples that never flip (Python indices
\* 1 and 3) stay active until max_iter and come back with perturbation
\* magnitude exactly eps; the two that flip with the second step (Python
\* indices 0 and 2) come back with the magnitude of that iteration, at most
\* two steps.
C4_EndToEnd ==
    (ret # "none" /\ E2EScenario) =>
        /\ \A i \in {2, 4} :
            /\ i \in Range(active_indices)
            /\ NormInfOf(VecSub(Returned[i], x0[i])) = self.eps
        /\ \A i \in {1, 3} :
            /\ i \notin Range(active_indices)
            /\ NormInfOf(VecSub(Returned[i], x0[i])) <= 2 * self.eps_step
        /\ k = DefaultMaxIter

\* __init__ is the last operation that ran
JustConstructed == inst # "none" /\ ctor # NoCtor

\* C8: __init__ raises an invalid-configuration error whenever eps_step > eps,
\* and does not raise its eps_step error when eps_step <= eps, equality
\* included.
C8_InitRejectsLargerStepOnly ==
    JustConstructed =>
        /\ ctor.eps_step > ctor.eps => (inst = "failed" /\ err \in ConfigErrors)
        /\ ctor.eps_step <= ctor.eps => err # "ValueError: eps_step"

\* __init__ returned an instance with eps_step equal to eps
C8_Witness ==
    /\ JustConstructed
    /\ inst = "ok"
    /\ ctor.eps_step = ctor.eps
    /\ self.eps_step = self.eps

\* the instance stands after __init__ or a set_params that raised nothing
ConfigurationPassed == inst = "ok" /\ err \notin ConfigErrors

C10_InitMaxIter ==
    JustConstructed =>
        /\ ctor.max_iter.v <= 0 => (inst = "failed" /\ err \in ConfigErrors)
        /\ ctor.max_iter.v > 0 => err # "ValueError: max_iter"
        /\ (ctor.max_iter.v > 0 /\ inst = "ok") =>
            /\ self.max_iter.int
            /\ self.max_iter.v = 10 * (ctor.max_iter.v \div 10)

\* __init__ was given 3.9 and stored 3
C10_Witness ==
    /\ JustConstructed
    /\ inst = "ok"
    /\ ctor.max_iter = PyFloatNum(39)
    /\ self.max_iter = PyIntNum(3)

---------------------------------------------------------------------------
(* Reconfiguration and the start of generate() *)

\* the keyword arguments a generate() call on the caller's batch, of MaxBatch
\* samples, may carry
GenerateKwargs == UNION {WithY(o, MaxBatch) : o \in ConfigOverrides}

\* the step is a generate() call up to the loop, or a set_params() call
GenerateStep == pc = "idle" /\ last' = "generate"

SetParamsStep == pc = "idle" /\ last' = "set_params"

\* C11: an instance that passed construction or a reconfiguration stores a
\* max_iter that is an integer and greater than 0.
C11_StoredMaxIterPositiveInteger ==
    ConfigurationPassed => (self.max_iter.int /\ self.max_iter.v > 0)

\* the configuration of s passes the validation of set_params
ValidConfiguration(s) == set_params(s, NoKwargs).err = "none"

\* kw overrides the configuration of s so that eps_step > eps or max_iter <= 0
BadOverride(s, kw) ==
    /\ kw.keys \cap attack_params # {}
    /\ \/ StoreParams(s, kw).eps_step > StoreParams(s, kw).eps
       \/ StoreParams(s, kw).max_iter.v <= 0

\* C12: generate() on a valid instance with overrides that make eps_step > eps
\* or max_iter <= 0 ends with an invalid-configuration error; no batch is
\* returned, the call does not reach its loop, and no classifier, _compute or
\* projection call has been made.
C12_BadOverridesRaiseBeforeAnyCall ==
    [][(GenerateStep /\ ValidConfiguration(self)) =>
        \/ /\ err' \in ConfigErrors
           /\ ret' = "none"
           /\ pc' = "idle"
           /\ calls' = NoCalls
           /\ heap' = heap
        \/ ~\E kw \in GenerateKwargs : BadOverride(self, kw) /\ GenerateCall(kw)]_vars

\* generate() has raised the eps_step error for an override of 0.5 over eps 0.3
C12_Witness ==
    /\ last = "generate"
    /\ err = "ValueError: eps_step"
    /\ self.eps_step = 5
    /\ self.eps = 3
    /\ self.max_iter.int /\ self.max_iter.v > 0
    /\ ret = "none"
    /\ calls = NoCalls

\* C13: generate() without labels (y absent or None) on a targeted instance
\* raises before any classifier or _compute call and returns no batch, with
\* the "target labels required" error whenever the overrides pass set_params;
\* on an untargeted instance it never raises that error.
C13_TargetedNeedsLabels ==
    [][GenerateStep =>
        IF self.targeted
        THEN /\ \/ err' # "none" /\ ret' = "none" /\ pc' = "idle" /\ calls' = NoCalls
                \/ ~\E kw \in GenerateKwargs : NoLabelsGiven(kw) /\ GenerateCall(kw)
             /\ \/ err' = "ValueError: y"
                \/ ~\E kw \in GenerateKwargs :
                        /\ NoLabelsGiven(kw)
                        /\ set_params(self, kw).err = "none"
                        /\ GenerateCall(kw)
        ELSE \/ err' # "ValueError: y"
             \/ ~\E kw \in GenerateKwargs : NoLabelsGiven(kw) /\ GenerateCall(kw)]_vars

\* generate() on a targeted instance has raised the labels error
C13_Witness ==
    /\ last = "generate"
    /\ self.targeted
    /\ err = "ValueError: y"
    /\ ret = "none"
    /\ pc = "idle"
    /\ calls = NoCalls

---------------------------------------------------------------------------
(* The labels and the length of the loop *)

\* a generate() call is past line 98, or has returned
InCall == last = "generate" /\ err = "none"

\* C14: a generate() call without labels queries the classifier once for the
\* labels, on the caller's unperturbed batch and before any _compute call; a
\* call with labels makes no such query and takes the labels as given; the
\* labels and the queries made for them stay as they are until the call ends.
C14_LabelsFixedOnce ==
    [][/\ (GenerateStep /\ err' = "none") =>
            \A kw \in GenerateKwargs :
                GenerateCall(kw) =>
                    IF NoLabelsGiven(kw)
                    THEN /\ calls'.labelq = <<x0>>
                         /\ heap["caller"] = x0
                         /\ calls'.compute = 0
                         /\ targets' = get_labels_np_array(predict(self.classifier, x0))
                    ELSE /\ calls'.labelq = <<>>
                         /\ targets' = kw.y.v
       /\ pc \in {"loop", "exit"} =>
            /\ targets' = targets
            /\ calls'.labelq = calls.labelq]_vars

\* the second iteration runs on the labels the classifier gave for x; the
\* batch has moved since
C14_Witness ==
    /\ InCall
    /\ k = 2
    /\ calls.labelq = <<x0>>
    /\ targets = get_labels_np_array(predict(self.classifier, x0))
    /\ heap[adv_x] # x0

\* what holds of the loop in every state of a call
C15_Bounded ==
    InCall =>
        /\ k <= RangeCount(self.max_iter)
        /\ calls.compute = k /\ calls.projection = k /\ calls.predict = k
        /\ pc = "loop" => k < RangeCount(self.max_iter)
        /\ (pc = "loop" /\ k >= 1) => active_indices # <<>>

\* C15: generate() ends once it has passed its checks; it runs at most
\* max_iter iterations, each with one _compute, one projection and one
\* classifier.predict call, and none after an iteration that left
\* active_indices empty.
C15_TerminatesWithinMaxIter ==
    /\ []C15_Bounded
    /\ (pc # "idle") ~> (pc = "idle" /\ ret # "none")

\* the call returned after one iteration of the three allowed, all samples
\* removed
C15_Witness ==
    /\ InCall
    /\ ret # "none"
    /\ k = 1
    /\ RangeCount(self.max_iter) = 3
    /\ active_indices = <<>>
    /\ calls.compute = 1

---------------------------------------------------------------------------
(* One iteration *)

\* C16: after an iteration active_indices lists, once each, exactly the
\* indices of the list the iteration ran on whose target label differs from
\* the arg-max of the prediction for their new value in adv_x.
C16_NewActiveSet ==
    k >= 1 =>
        /\ Range(active_indices) =
                {i \in Range(prevActive) : TargetLabels(targets)[i] # CurrentPrediction[i]}
        /\ Cardinality(Range(active_indices)) = Len(active_indices)

\* an iteration on the list [1] (sample 1, position 0) kept its sample, whose
\* label differs from that of sample 0
C16_Witness ==
    /\ k >= 2
    /\ prevActive = <<2>>
    /\ active_indices = <<2>>
    /\ TargetLabels(targets)[1] # TargetLabels(targets)[2]

\* C17: an iteration leaves, for every index i it ran on, adv_x[i] equal to
\* x[i] + projection(s[i] - x[i], eps, norm), s[i] being what _compute
\* returned for the value adv_x[i] had before the iteration.
C17_ReanchoredToOriginal ==
    [][(pc = "loop" /\ k' = k + 1) =>
        \A n \in 1..Len(active_indices) :
            LET i == active_indices[n] IN
                /\ \E d \in {-self.eps_step, 0, self.eps_step} :
                        stepOut'[i] = compute(self, <<heap[adv_x][i]>>, <<targets[i]>>,
                                              self.eps_step, self.random_init,
                                              <<d>>)[1]
                /\ heap'[adv_x][i] =
                        VecAdd(heap["caller"][i],
                               ProjectionRow(VecSub(stepOut'[i], heap["caller"][i]),
                                             self.eps, self.norm))]_vars

\* the second iteration ran on a shortened list and its step left the ball
\* around x, further than one step from the value written
C17_Witness ==
    /\ k = 2
    /\ Len(prevActive) < Len(x0)
    /\ \E i \in Range(prevActive) :
            /\ ~InBall(VecSub(stepOut[i], x0[i]), self.eps, self.norm)
            /\ heap[adv_x][i] # stepOut[i]
            /\ x0[i] # x0[1]

\* C18: the _compute calls after the first one of a generate() call are not
\* asked for a random start.
C18_RandomInitOnlyFirst == (InCall /\ k >= 2) => ~calls.rinit

\* the errors of lines 131 and 134
StepOrCountErrors == {"ValueError: eps_step", "ValueError: max_iter"}

====
